---- MODULE Spec2Model ----
(***************************************************************************)
(* State-machine model of src/UserApp.py: one Streamlit session running    *)
(* the script top to bottom on every rerun.  The session state             *)
(* (st.session_state) survives between script runs; main()'s locals and    *)
(* the rendered page are rebuilt by every run.  The remote services        *)
(* (Gemini, Pinecone, the LlamaIndex query engine) are the environment:    *)
(* each call either raises or returns, chosen nondeterministically.        *)
(***************************************************************************)
EXTENDS Naturals, Sequences, FiniteSets

\* Number of script runs explored in one session.
MaxRuns == 5

\* similarity_top_k passed to index.as_query_engine.
SimilarityTopK == 7

(***************************************************************************)
(* Python values.  A value carries its type so that None, "" and the text  *)
(* "None" stay three different things.                                     *)
(***************************************************************************)
PyNone == [t |-> "NoneType", v |-> ""]

PyStr(s) == [t |-> "str", v |-> s]

\* A local name of main() that has not been assigned in the current run.
Unbound == [t |-> "unbound", v |-> ""]

\* Faulty variant of Truthy: tests 'is not None' instead of truthiness.
Truthy_IsNotNone(x) == x.t = "str"

\* Python truthiness of a chat_input value: None and "" are falsy.
Truthy(x) == x.t = "str" /\ x.v # ""

\* Python str(): the text of None is "None", a str is itself.
str(x) == IF x.t = "NoneType" THEN PyStr("None") ELSE x

\* What st.chat_input can hand to a run: nothing, or the submitted text.
ChatInputs == {PyNone, PyStr(""), PyStr("a"), PyStr("b")}

\* What a LlamaIndex Response carries in its .response attribute.
ResponseBodies == {PyNone, PyStr("ans")}

\* The object returned by query_engine.query.
Response(r) == [cls |-> "Response", response |-> r]

\* A returned object with no .response attribute.
NoAttrResponse == [cls |-> "object", response |-> PyNone]

UnboundResponse == [cls |-> "unbound", response |-> PyNone]

QueryReturns == {Response(r) : r \in ResponseBodies} \cup {NoAttrResponse}

\* Places where system initialization can raise.
InitFailurePoints == {"llm", "pinecone", "query_engine"}

VARIABLES
    session_state,    \* st.session_state: a mapping from key to value
    Settings,         \* llama_index Settings: are llm / embed_model set
    pc,               \* position of the script run ("idle" between runs)
    submitted,        \* what st.chat_input returns in the current run
    query,            \* main()'s local: query
    response,         \* main()'s local: response
    response_text,    \* main()'s local: response_text
    display,          \* elements rendered by the current run, in order
    runs,             \* number of script runs started
    init_attempts,    \* history: calls of initialize_chatbot so far
    init_failed,      \* history: has system initialization ever raised
    pipeline_log,     \* history: every query_engine.query call
    appended,         \* history: the turns handed to chat_history.extend
    before            \* history: session_state when the current run began

vars == <<session_state, Settings, pc, submitted, query, response,
          response_text, display, runs, init_attempts, init_failed,
          pipeline_log, appended, before>>

(***************************************************************************)
(* Helpers on the session state and the page.                              *)
(***************************************************************************)
Has(ss, k) == k \in DOMAIN ss

Put(ss, k, val) == [x \in DOMAIN ss \cup {k} |-> IF x = k THEN val ELSE ss[x]]

EmptySessionState == [x \in {} |-> 0]

\* The transcript, read as empty while the key has not been created.
History == IF Has(session_state, "chat_history")
           THEN session_state["chat_history"] ELSE <<>>

ChatTurn(role, content) == [role |-> role, content |-> content]

Element(el, role, body) == [el |-> el, role |-> role, body |-> body]

ChatMessage(role, content) == Element("chat_message", role, content)

ChatInputWidget == Element("chat_input", "", PyStr("Ask about products..."))

\* The handle made by index.as_query_engine on the n-th initialization.
QueryEngine(n) == [engine |-> n, similarity_top_k |-> SimilarityTopK]

\* Faulty variants of ExtendHistory: insert at the front; assign the list.
ExtendHistory_Prepend(h, turns) == turns \o h

ExtendHistory_Replace(h, turns) == turns

\* list.extend
ExtendHistory(h, turns) == h \o turns

\* Faulty variant of NewTurns: the two dicts in the wrong order.
NewTurns_AssistantFirst(q, text) ==
    <<ChatTurn("assistant", text), ChatTurn("user", q)>>

\* The two turns recorded for an answered query.
NewTurns(q, text) == <<ChatTurn("user", q), ChatTurn("assistant", text)>>

\* get_response_text: str(response.response); AttributeError without it.
GetResponseTextRaises(r) == r.cls # "Response"

\* Faulty variant of get_response_text: returns response.response as it is.
get_response_text_NoStr(r) == r.response

get_response_text(r) == str(r.response)

\* Faulty variant of NeedsInit: initializes on every run.
NeedsInit_Always(ss) == TRUE

\* 'query_engine' not in st.session_state
NeedsInit(ss) == ~Has(ss, "query_engine")

\* The messages rendered for the stored transcript.
RECURSIVE Transcript(_)
Transcript(h) ==
    IF h = <<>> THEN <<>>
    ELSE <<ChatMessage(IF Head(h).role = "user" THEN "user" ELSE "assistant",
                       Head(h).content)>> \o Transcript(Tail(h))

Init ==
    /\ session_state = EmptySessionState
    /\ Settings = [llm |-> FALSE, embed_model |-> FALSE]
    /\ pc = "idle"
    /\ submitted = PyNone
    /\ query = Unbound
    /\ response = UnboundResponse
    /\ response_text = Unbound
    /\ display = <<>>
    /\ runs = 0
    /\ init_attempts = 0
    /\ init_failed = FALSE
    /\ pipeline_log = <<>>
    /\ appended = <<>>
    /\ before = EmptySessionState

\* Is the chat input on the page the user is looking at.
ChatInputOffered == \E i \in 1..Len(display) : display[i].el = "chat_input"

\* A rerun begins.  Text can only be submitted through a chat input that
\* the previous run rendered.
StartRun ==
    /\ pc = "idle"
    /\ runs < MaxRuns
    /\ \E s \in ChatInputs :
          /\ (s # PyNone => ChatInputOffered)
          /\ submitted' = s
    /\ runs' = runs + 1
    /\ query' = Unbound
    /\ response' = UnboundResponse
    /\ response_text' = Unbound
    /\ display' = <<>>
    /\ before' = session_state
    /\ pc' = "L20"
    /\ UNCHANGED <<session_state, Settings, init_attempts, init_failed,
                   pipeline_log, appended>>

\* Lines 20-21: create the transcript on the session's first run.
InitSessionState ==
    /\ pc = "L20"
    /\ session_state' = IF ~Has(session_state, "chat_history")
                        THEN Put(session_state, "chat_history", <<>>)
                        ELSE session_state
    /\ display' = <<Element("title", "", PyStr("Knowledge AI Agent"))>>
    /\ pc' = "L82"
    /\ UNCHANGED <<Settings, submitted, query, response, response_text, runs,
                   init_attempts, init_failed, pipeline_log, appended, before>>

\* The handle a query is sent to.
NoEngine == [engine |-> 0, similarity_top_k |-> 0]

CurrentEngine == IF Has(session_state, "query_engine")
                 THEN session_state["query_engine"] ELSE NoEngine

\* Lines 82-86, 'query_engine' already stored: nothing to initialize.
InitializeSkipped ==
    /\ pc = "L82"
    /\ ~NeedsInit(session_state)
    /\ pc' = "L89"
    /\ UNCHANGED <<session_state, Settings, submitted, query, response,
                   response_text, display, runs, init_attempts, init_failed,
                   pipeline_log, appended, before>>

\* Lines 82-86 with initialize_chatbot and create_query_engine returning.
InitializeSucceeds ==
    /\ pc = "L82"
    /\ NeedsInit(session_state)
    /\ init_attempts' = init_attempts + 1
    /\ Settings' = [llm |-> TRUE, embed_model |-> TRUE]
    /\ session_state' = Put(session_state, "query_engine",
                            QueryEngine(init_attempts + 1))
    /\ display' = Append(display, Element("success", "",
                             PyStr("System initialized successfully!")))
    /\ pc' = "L89"
    /\ UNCHANGED <<submitted, query, response, response_text, runs,
                   init_failed, pipeline_log, appended, before>>

\* Faulty variant of InitializeFails: a placeholder handle is stored.
InitializeFails_StoresHandle ==
    /\ pc = "L82"
    /\ NeedsInit(session_state)
    /\ \E p \in InitFailurePoints :
          Settings' = IF p = "llm" THEN Settings
                      ELSE [llm |-> TRUE, embed_model |-> TRUE]
    /\ init_attempts' = init_attempts + 1
    /\ init_failed' = TRUE
    /\ session_state' = Put(session_state, "query_engine", NoEngine)
    /\ pc' = "L120"
    /\ UNCHANGED <<submitted, query, response, response_text, display, runs,
                   pipeline_log, appended, before>>

\* Lines 82-85 with initialize_chatbot (logged and re-raised, lines 42-44)
\* or create_query_engine raising: control leaves the outer try block.
\* Settings.llm and Settings.embed_model are assigned (lines 31-32) before
\* the Pinecone calls and create_query_engine can raise.
InitializeFails ==
    /\ pc = "L82"
    /\ NeedsInit(session_state)
    /\ \E p \in InitFailurePoints :
          Settings' = IF p = "llm" THEN Settings
                      ELSE [llm |-> TRUE, embed_model |-> TRUE]
    /\ init_attempts' = init_attempts + 1
    /\ init_failed' = TRUE
    /\ pc' = "L120"
    /\ UNCHANGED <<session_state, submitted, query, response, response_text,
                   display, runs, pipeline_log, appended, before>>

\* Lines 89-96: render the stored transcript.
RenderTranscript ==
    /\ pc = "L89"
    /\ display' = display \o Transcript(session_state["chat_history"])
    /\ pc' = "L99"
    /\ UNCHANGED <<session_state, Settings, submitted, query, response,
                   response_text, runs, init_attempts, init_failed,
                   pipeline_log, appended, before>>

\* Faulty variant of ChatInput: the user turn is stored before the call.
ChatInput_RecordsUserTurn ==
    /\ pc = "L99"
    /\ query' = submitted
    /\ IF Truthy(submitted)
       THEN /\ display' = display \o <<ChatInputWidget,
                                       ChatMessage("user", submitted)>>
            /\ session_state' = Put(session_state, "chat_history",
                   Append(session_state["chat_history"],
                          ChatTurn("user", submitted)))
            /\ pc' = "L104"
       ELSE /\ display' = Append(display, ChatInputWidget)
            /\ session_state' = session_state
            /\ pc' = "idle"
    /\ UNCHANGED <<Settings, submitted, response, response_text,
                   runs, init_attempts, init_failed, pipeline_log, appended,
                   before>>

\* Lines 99-100: the chat input, and the user's text when there is one.
ChatInput ==
    /\ pc = "L99"
    /\ query' = submitted
    /\ IF Truthy(submitted)
       THEN /\ display' = display \o <<ChatInputWidget,
                                       ChatMessage("user", submitted)>>
            /\ pc' = "L104"
       ELSE /\ display' = Append(display, ChatInputWidget)
            /\ pc' = "idle"
    /\ UNCHANGED <<session_state, Settings, submitted, response, response_text,
                   runs, init_attempts, init_failed, pipeline_log, appended,
                   before>>

LogEntry(raised, r) ==
    [engine |-> CurrentEngine, query |-> query, raised |-> raised,
     response |-> r]

\* Line 104 raising (a missing handle raises here as well).
QueryRaises ==
    /\ pc = "L104"
    /\ pipeline_log' = Append(pipeline_log, LogEntry(TRUE, UnboundResponse))
    /\ pc' = "L116"
    /\ UNCHANGED <<session_state, Settings, submitted, query, response,
                   response_text, display, runs, init_attempts, init_failed,
                   appended, before>>

\* Lines 104-105: the engine returns, then get_response_text.
QueryReturnsResponse ==
    /\ pc = "L104"
    /\ Has(session_state, "query_engine")
    /\ \E r \in QueryReturns :
          /\ response' = r
          /\ pipeline_log' = Append(pipeline_log, LogEntry(FALSE, r))
          /\ IF GetResponseTextRaises(r)
             THEN /\ response_text' = response_text
                  /\ pc' = "L116"
             ELSE /\ response_text' = get_response_text(r)
                  /\ pc' = "L108"
    /\ UNCHANGED <<session_state, Settings, submitted, query, display, runs,
                   init_attempts, init_failed, appended, before>>

\* Lines 108-114: show the answer, then record both turns.
RecordAnswer ==
    /\ pc = "L108"
    /\ display' = Append(display, ChatMessage("assistant", response_text))
    /\ session_state' = Put(session_state, "chat_history",
           ExtendHistory(session_state["chat_history"],
                         NewTurns(query, response_text)))
    /\ appended' = appended \o <<ChatTurn("user", query),
                                 ChatTurn("assistant", response_text)>>
    /\ pc' = "idle"
    /\ UNCHANGED <<Settings, submitted, query, response, response_text, runs,
                   init_attempts, init_failed, pipeline_log, before>>

\* Faulty variant of QueryError: the handler discards the stored handle.
QueryError_DropsEngine ==
    /\ pc = "L116"
    /\ display' = display \o
          <<Element("error", "", PyStr("Error processing question")),
            Element("info", "", PyStr("Please try rephrasing your question."))>>
    /\ session_state' = [x \in DOMAIN session_state \ {"query_engine"} |->
                            session_state[x]]
    /\ pc' = "idle"
    /\ UNCHANGED <<Settings, submitted, query, response,
                   response_text, runs, init_attempts, init_failed,
                   pipeline_log, appended, before>>

\* Lines 116-118: the per-query handler.
QueryError ==
    /\ pc = "L116"
    /\ display' = display \o
          <<Element("error", "", PyStr("Error processing question")),
            Element("info", "", PyStr("Please try rephrasing your question."))>>
    /\ pc' = "idle"
    /\ UNCHANGED <<session_state, Settings, submitted, query, response,
                   response_text, runs, init_attempts, init_failed,
                   pipeline_log, appended, before>>

\* Lines 120-122: the outer handler.
SystemError ==
    /\ pc = "L120"
    /\ display' = display \o
          <<Element("error", "", PyStr("System Error")),
            Element("warning", "",
                PyStr("Please check your configuration and try again."))>>
    /\ pc' = "idle"
    /\ UNCHANGED <<session_state, Settings, submitted, query, response,
                   response_text, runs, init_attempts, init_failed,
                   pipeline_log, appended, before>>

Next ==
    \/ StartRun
    \/ InitSessionState
    \/ InitializeSkipped
    \/ InitializeSucceeds
    \/ InitializeFails
    \/ RenderTranscript
    \/ ChatInput
    \/ QueryRaises
    \/ QueryReturnsResponse
    \/ RecordAnswer
    \/ QueryError
    \/ SystemError

Spec == Init /\ [][Next]_vars

(***************************************************************************)
(* Vocabulary of the properties.                                           *)
(***************************************************************************)
IsPrefix(s, t) == Len(s) <= Len(t) /\ SubSeq(t, 1, Len(s)) = s

NonEmptyString(x) == x.t = "str" /\ x.v # ""

\* The text Python's str() gives for the body of a Response.
TextOf(body) == IF body = PyNone THEN PyStr("None") ELSE body

Shown(el, text) ==
    \E i \in 1..Len(display) : display[i].el = el /\ display[i].body = PyStr(text)

SystemErrorShown == Shown("error", "System Error")

QueryErrorShown == Shown("error", "Error processing question")

RephraseShown == Shown("info", "Please try rephrasing your question.")

TranscriptOrInputShown ==
    \E i \in 1..Len(display) : display[i].el \in {"chat_message", "chat_input"}

\* A pipeline call that ended in an answer text / in an exception.
Answered(e) == ~e.raised /\ e.response.cls = "Response"

Failed(e) == ~Answered(e)

AnsweredCalls == SelectSeq(pipeline_log, Answered)

HistoryBefore == IF Has(before, "chat_history") THEN before["chat_history"] ELSE <<>>

\* C1: chat_history is append-only and insertion-ordered: every step leaves
\* the earlier history a prefix of the later one, and the history is exactly
\* the sequence of turns that were appended, in append order.
C1_AppendOnly ==
    [][IsPrefix(History, History') /\ History' = appended']_vars

C1_Witness ==
    /\ pc = "idle"
    /\ Len(History) = 4
    /\ History[1] # History[3]

\* C2 as stated: once a run has ended, the query submitted in it is a user
\* turn of chat_history, and an answer returned in it is an assistant turn.
C2_EverySubmissionRecorded ==
    (pc = "idle" /\ NonEmptyString(query)) =>
        /\ \E i \in 1..Len(History) : History[i] = ChatTurn("user", query)
        /\ response_text # Unbound =>
              \E i \in 1..Len(History) :
                  History[i] = ChatTurn("assistant", response_text)

\* C2 amended: a run whose pipeline call returned an answer ends with the
\* user turn of its query followed by the assistant turn of that answer at
\* the end of chat_history; a run whose pipeline call raised adds no turn.
C2_AnsweredSubmissionRecorded ==
    (pc = "idle" /\ NonEmptyString(query)) =>
        IF response_text # Unbound
        THEN History = HistoryBefore \o <<ChatTurn("user", query),
                                          ChatTurn("assistant", response_text)>>
        ELSE History = HistoryBefore

C2_Witness ==
    /\ pc = "idle"
    /\ NonEmptyString(query)
    /\ response_text # Unbound
    /\ \E i \in 1..Len(pipeline_log) : Failed(pipeline_log[i])

\* C3: a failed pipeline call goes to the per-query handler, which shows the
\* rephrase message and leaves the session state alone; a stored
\* query_engine is never replaced or removed; and a run that finds the
\* query_engine stored always goes on to the transcript and the chat input.
C3_QueryFailureRecovered ==
    [][/\ (pc = "L104" /\ Failed(pipeline_log'[Len(pipeline_log')])
              => pc' = "L116")
       /\ (pc = "L116" =>
              /\ pc' = "idle"
              /\ RephraseShown'
              /\ session_state' = session_state)
       /\ (Has(session_state, "query_engine") =>
              /\ Has(session_state', "query_engine")
              /\ session_state'["query_engine"] = session_state["query_engine"])
       /\ (pc = "L82" /\ Has(session_state, "query_engine") => pc' = "L89")
       /\ (pc = "L89" => pc' = "L99")
       /\ (pc = "L99" => ChatInputOffered')
      ]_vars

\* A query failed, and a later query was answered by the same handle.
C3_Witness ==
    /\ pc = "idle"
    /\ RephraseShown = FALSE
    /\ \E i, j \in 1..Len(pipeline_log) :
          /\ i < j
          /\ Failed(pipeline_log[i])
          /\ Answered(pipeline_log[j])
          /\ pipeline_log[i].engine = pipeline_log[j].engine
          /\ pipeline_log[j].engine = CurrentEngine

\* C4: in a run whose initialization raised, no query_engine is stored and
\* neither the transcript nor the chat input is rendered; a query is only
\* ever sent to a handle that as_query_engine returned.
C4_InitFailureHalts ==
    /\ (pc = "L120" \/ SystemErrorShown) =>
          /\ ~Has(session_state, "query_engine")
          /\ ~TranscriptOrInputShown
    /\ pc \in {"L89", "L99", "L104", "L108", "L116"} =>
          /\ Has(session_state, "query_engine")
          /\ session_state["query_engine"] \in
                {QueryEngine(n) : n \in 1..init_attempts}
    /\ \A i \in 1..Len(pipeline_log) :
          pipeline_log[i].engine \in {QueryEngine(n) : n \in 1..init_attempts}

\* Initialization raised after Settings had been assigned.
C4_Witness ==
    /\ pc = "idle"
    /\ SystemErrorShown
    /\ Settings.llm
    /\ ~Has(session_state, "query_engine")

\* C5 as stated: once initialization has failed, it is not attempted again
\* and no pipeline is created in the session.
C5_NoRetryAfterFailure ==
    [][init_failed =>
          /\ init_attempts' = init_attempts
          /\ ~Has(session_state', "query_engine")]_vars

\* C5 amended: the run whose initialization fails creates no query_engine;
\* every run that finds no query_engine stored attempts initialization
\* (again), and a run that finds one stored never does.
C5_RetryWhileAbsent ==
    [][/\ (pc = "L82" /\ ~Has(session_state, "query_engine") =>
              /\ init_attempts' = init_attempts + 1
              /\ pc' \in {"L89", "L120"})
       /\ (pc = "L82" /\ Has(session_state, "query_engine") =>
              /\ init_attempts' = init_attempts
              /\ session_state' = session_state)
       /\ (pc # "L82" => init_attempts' = init_attempts)
       /\ (pc' = "L120" =>
              /\ init_failed'
              /\ ~Has(session_state', "query_engine"))
      ]_vars

\* Initialization failed in one run and succeeded in a later one.
C5_Witness ==
    /\ init_failed
    /\ init_attempts >= 2
    /\ Has(session_state, "query_engine")

\* C7: the pipeline is called only with a non-empty chat input, passed
\* verbatim; a run whose chat input is None or "" ends at the chat input
\* without a pipeline call and without a change of chat_history.
C7_NonEmptyQueryOnly ==
    [][/\ (pipeline_log' # pipeline_log =>
              /\ pc = "L104"
              /\ NonEmptyString(submitted)
              /\ pipeline_log' = Append(pipeline_log, pipeline_log'[Len(pipeline_log')])
              /\ pipeline_log'[Len(pipeline_log')].query = submitted)
       /\ (pc # "idle" /\ ~NonEmptyString(submitted) =>
              /\ pipeline_log' = pipeline_log
              /\ History' = History
              /\ pc' \notin {"L104", "L108", "L116"})
      ]_vars

\* A run was handed the empty string by a rendered chat input.
C7_Witness ==
    /\ pc = "idle"
    /\ submitted = PyStr("")
    /\ ChatInputOffered
    /\ Len(pipeline_log) >= 1

\* The answer of the current run is on the page and at the end of the history.
AnswerDelivered ==
    \E i \in 1..Len(display) :
        /\ display[i].el = "chat_message"
        /\ display[i].role = "assistant"
        /\ display[i].body.t = "str"
        /\ \A j \in i..Len(display) : display[j].el # "chat_input"
        /\ \E k \in 1..(i - 1) : display[k].el = "chat_input"
        /\ History = HistoryBefore \o
              <<ChatTurn("user", query), ChatTurn("assistant", display[i].body)>>

ErrorShown == \E i \in 1..Len(display) : display[i].el = "error"

\* C8: a run that processed a query ends in exactly one of: the answer, a
\* string, shown as the assistant message and appended to chat_history; or
\* an error message shown.
C8_AnswerOrError ==
    (pc = "idle" /\ NonEmptyString(query)) => (AnswerDelivered # ErrorShown)

\* The engine returned a Response whose text is None.
C8_Witness ==
    /\ pc = "idle"
    /\ NonEmptyString(query)
    /\ response = Response(PyNone)
    /\ AnswerDelivered

\* C9: when the pipeline call of a run fails, the session state from the
\* handler on is the session state the run began with, and the user's text
\* was rendered in that run.
C9_FailedQueryLeavesState ==
    (pc = "L116" \/ (pc = "idle" /\ QueryErrorShown)) =>
        /\ session_state = before
        /\ \E i \in 1..Len(display) : display[i] = ChatMessage("user", query)

\* get_response_text raised in a session that already holds turns.
C9_Witness ==
    /\ pc = "idle"
    /\ QueryErrorShown
    /\ response = NoAttrResponse
    /\ Len(History) >= 2

\* C10: chat_history is a sequence of (user, assistant) pairs, the k-th pair
\* holding the query and the answer text of the k-th answered pipeline call;
\* only the call whose answer is about to be recorded has no pair yet.
C10_AlternatingPairs ==
    /\ Len(History) % 2 = 0
    /\ Len(History) = 2 * (Len(AnsweredCalls) - (IF pc = "L108" THEN 1 ELSE 0))
    /\ \A k \in 1..(Len(History) \div 2) :
          /\ History[2 * k - 1] = ChatTurn("user", AnsweredCalls[k].query)
          /\ History[2 * k] =
                ChatTurn("assistant", TextOf(AnsweredCalls[k].response.response))

C10_Witness ==
    /\ pc = "L108"
    /\ Len(History) = 2
    /\ Len(AnsweredCalls) = 2

====
